---- MODULE Spec2Model ----
(***************************************************************************)
(* Car Scout: the SMS conversation state machine (server.py, sms_webhook   *)
(* and its deferred send) and the visit-scheduling engine (utils.py,       *)
(* process_visit_scheduling and its helpers).                              *)
(*                                                                         *)
(* Time.  One unit is 30 minutes.  An instant is counted on the Central    *)
(* Time wall clock: instant t is day (t \div 48), hour ((t % 48) \div 2).  *)
(* The horizon of a run lies inside one DST period, so the UTC wall clock  *)
(* reads t + CentralUtcOffset at instant t.                                *)
(***************************************************************************)
EXTENDS Integers, Sequences, FiniteSets, TLC

VARIABLES
    thr,          \* threads collection: phone number -> thread document
    msgs,         \* messages collection: per thread, in insertion order
    listings,     \* carlistings collection: per thread (unique index on threadId)
    visits,       \* visits collection
    nextVisitId,  \* next _id of the visits collection
    pending,      \* pending_responses: thread id -> task handle
    tasks,        \* deferred-send tasks that are neither finished nor cancelled
    nextTask,     \* next task handle
    handlers,     \* webhook handlers suspended inside send_sms (retry sleep)
    sent,         \* SMS accepted by the provider, in order
    now,          \* the Central-Time clock
    ticks,        \* clock advances so far
    schedCall,    \* the last process_visit_scheduling call: inputs and result
    limit,        \* how many inbound messages the run admits
    ev            \* the last step of the pipeline: what it did

vars == <<thr, msgs, listings, visits, nextVisitId, pending, tasks, nextTask,
          handlers, sent, now, ticks, schedCall, limit, ev>>
pipelineVars == <<thr, msgs, listings, pending, tasks, nextTask, handlers, sent, ev>>

\* ---------------------------------------------------------------------
\* Units and program constants
\* ---------------------------------------------------------------------
HourUnits == 2
DayUnits == 48
\* time_diff < 3600 (seconds): one hour
ConflictWindow == 2
\* end_date = now_ct + timedelta(days=2)
WindowUnits == 96
\* America/Chicago is UTC-5 (daylight time): 5 hours
CentralUtcOffset == 10

NoTime == -1

Abs(x) == IF x < 0 THEN -x ELSE x
Date(t) == t \div DayUnits
Hour(t) == (t % DayUnits) \div HourUnits
Slot(d, h) == d * DayUnits + h * HourUnits

\* ---------------------------------------------------------------------
\* Bounds of the model
\* ---------------------------------------------------------------------
MaxInbound == 2
MaxSchedCalls == 1
MaxTicks == 1
MaxCancels == 1

\* ---------------------------------------------------------------------
\* Persistence of visits (models.py Visit, utils.py create_visit)
\* ---------------------------------------------------------------------
\* create_visit: one document, status "scheduled", scheduledTime as given,
\* carListingId when the engine found a listing of the thread
\* (car_listing = CarListing.find_one({"threadId": ...}) at the time of the
\* call); a listing is named by its thread
NoId == ""
CreateVisit(db, id, thread, t) ==
    db \cup {[id |-> id, threadId |-> thread, scheduledTime |-> t, status |-> "scheduled",
              carListingId |-> IF listings[thread].exists THEN thread ELSE NoId]}

\* The client is MongoClient(MONGODB_URI) without tz_aware: a stored
\* datetime comes back naive, reading the UTC wall clock (app.py treats it
\* so: "Naive datetime - assume UTC and convert to CT").  The engine
\* isoformat()s that value and then takes the naive value as Central Time
\* (visit_time.replace(tzinfo=ct_tz)).  The time the engine compares with
\* is therefore the stored instant moved by the UTC offset.
VisitTimeAsRead(t) == t + CentralUtcOffset

\* (variant: the query has no condition on the status)
AvailabilityQueryAnyStatus(db, start, end) ==
    { w \in db : w.scheduledTime >= start /\ w.scheduledTime <= end }
\* Visit.find({"scheduledTime": {"$gte": start_date, "$lte": end_date},
\*             "status": {"$ne": "cancelled"}}): the documents of the
\* whole collection that match; the query names no thread and compares
\* instants
AvailabilityQuery(db, start, end) ==
    { w \in db : /\ w.scheduledTime >= start
                 /\ w.scheduledTime <= end
                 /\ w.status # "cancelled" }

\* get_visit_availability: the scheduledTime of every document found, as
\* the engine reads it
GetVisitAvailability(db, start, end) ==
    { VisitTimeAsRead(v.scheduledTime) : v \in AvailabilityQuery(db, start, end) }

\* ---------------------------------------------------------------------
\* Conflict detection, in the three places the engine applies it
\* ---------------------------------------------------------------------
\* process_visit_scheduling, the dealer-proposed time
ProposedConflict(proposed, existing) ==
    \E vt \in existing : Abs(proposed - vt) < ConflictWindow

\* find_next_available_time, one alternative candidate
AlternativeConflict(candidate, existing) ==
    \E vt \in existing : Abs(candidate - vt) < ConflictWindow

\* propose_available_time, one fallback slot (both scans)
FallbackConflict(candidate, existing) ==
    \E vt \in existing : Abs(candidate - vt) < ConflictWindow

\* ---------------------------------------------------------------------
\* find_next_available_time
\* ---------------------------------------------------------------------
OffsetList == <<-1, 1, -2, 2, -3, 3>>

AlternativeOk(proposed, i, existing, end, nowT) ==
    LET c == proposed + OffsetList[i]
    IN  /\ ~(c < nowT \/ c > end)
        /\ ~AlternativeConflict(c, existing)

\* time_slots.sort(key = distance to the proposed time) is stable: of two
\* candidates at the same distance the one appended first stays first.
FindNextAvailableTime(proposed, existing, end, nowT) ==
    LET ok == { i \in 1..Len(OffsetList) : AlternativeOk(proposed, i, existing, end, nowT) }
        best == { i \in ok : \A j \in ok :
                     \/ Abs(OffsetList[i]) < Abs(OffsetList[j])
                     \/ (Abs(OffsetList[i]) = Abs(OffsetList[j]) /\ i <= j) }
    IN  IF ok = {} THEN NoTime
        ELSE proposed + OffsetList[CHOOSE i \in best : TRUE]

\* ---------------------------------------------------------------------
\* propose_available_time
\* ---------------------------------------------------------------------
PreferredHours == <<10, 14, 16>>
AnyHours == <<9, 10, 11, 12, 13, 14, 15, 16, 17>>

\* start_date: tomorrow, or today when the current hour is before 10
StartDay(nowT) == IF Hour(nowT) < 10 THEN Date(nowT) ELSE Date(nowT + DayUnits)

\* the slots of one scan, in the order the loops visit them
ScanSlots(nowT, end, hours) ==
    LET first == StartDay(nowT)
        last == Date(end)
        nDays == IF last >= first THEN last - first + 1 ELSE 0
    IN  [k \in 1..(nDays * Len(hours)) |->
            Slot(first + ((k - 1) \div Len(hours)), hours[((k - 1) % Len(hours)) + 1])]

SlotOk(c, nowT, end, existing) ==
    /\ ~(c < nowT \/ c > end)
    /\ ~FallbackConflict(c, existing)

FirstFreeSlot(slots, nowT, end, existing) ==
    LET ok == { k \in 1..Len(slots) : SlotOk(slots[k], nowT, end, existing) }
    IN  IF ok = {} THEN NoTime
        ELSE slots[CHOOSE k \in ok : \A j \in ok : k <= j]

ProposeAvailableTime(nowT, end, existing) ==
    LET pref == FirstFreeSlot(ScanSlots(nowT, end, PreferredHours), nowT, end, existing)
        any == FirstFreeSlot(ScanSlots(nowT, end, AnyHours), nowT, end, existing)
    IN  IF pref # NoTime
        THEN [kind |-> "come_by", time |-> pref, visit_scheduled |-> TRUE]
        ELSE IF any # NoTime
        THEN [kind |-> "how_about", time |-> any, visit_scheduled |-> TRUE]
        ELSE [kind |-> "booked_up", time |-> NoTime, visit_scheduled |-> FALSE]

\* ---------------------------------------------------------------------
\* process_visit_scheduling
\*   llm.outcome: "error"   the extraction call or its JSON failed
\*                "none"    no concrete date and time proposed
\*                "badtime" date and time given but not parseable
\*                "time"    date and time given, parsed to llm.time
\* The result's time is the scheduledTime of the visit it created
\* (NoTime when it created none).
\* ---------------------------------------------------------------------
\* (variant: the validation of the proposed time is missing)
InPastNever(proposed, nowT) == FALSE
\* if proposed_time < now_ct: propose a time instead
InPast(proposed, nowT) == proposed < nowT

ProcessVisitScheduling(db, nowT, llm) ==
    LET end == nowT + WindowUnits
        existing == GetVisitAvailability(db, nowT, end)
        fallback == ProposeAvailableTime(nowT, end, existing)
    IN  IF llm.outcome = "error"
        THEN [kind |-> "ready_to_schedule", time |-> NoTime, visit_scheduled |-> FALSE]
        ELSE IF llm.outcome = "none" \/ llm.outcome = "badtime"
        THEN fallback
        ELSE IF InPast(llm.time, nowT)
        THEN fallback
        ELSE IF ProposedConflict(llm.time, existing)
        THEN LET alt == FindNextAvailableTime(llm.time, existing, end, nowT)
             IN  IF alt # NoTime
                 THEN [kind |-> "alternative", time |-> alt, visit_scheduled |-> TRUE]
                 ELSE fallback
        ELSE [kind |-> "confirmed", time |-> llm.time, visit_scheduled |-> TRUE]

\* the visits collection after the call
VisitsAfter(db, id, thread, result) ==
    IF result.time # NoTime THEN CreateVisit(db, id, thread, result.time) ELSE db

\* ---------------------------------------------------------------------
\* The scheduling engine as a step: the call, the visit it inserts, and
\* the record of the call
\* ---------------------------------------------------------------------
NoLlm == [outcome |-> "notcalled", time |-> NoTime]
NoResult == [kind |-> "notcalled", time |-> NoTime, visit_scheduled |-> FALSE]
NoCall == [thread |-> "", now |-> NoTime, llm |-> NoLlm, before |-> {}, result |-> NoResult]

EngineCall(thread, llm) ==
    [thread |-> thread, now |-> now, llm |-> llm, before |-> visits,
     result |-> ProcessVisitScheduling(visits, now, llm)]

\* existing_visits = get_visit_availability(now_ct, end_date): the
\* documents the call loaded
Loaded(call) == AvailabilityQuery(call.before, call.now, call.now + WindowUnits)

\* what the extraction call can answer; dealer times lie on the 30-minute grid
LlmOutcomes(times) ==
    {[outcome |-> o, time |-> NoTime] : o \in {"error", "none"}}
        \cup {[outcome |-> "time", time |-> p] : p \in times}

\* ---------------------------------------------------------------------
\* Initial contents of the visits collection: any of the three sample
\* visits of helper_scripts/create_sample_visits.py (Saturday 10:00,
\* Saturday 14:30, Sunday 11:00); day 0 is the Friday before.
\* ---------------------------------------------------------------------
SampleTimes == {Slot(1, 10), Slot(1, 14) + 1, Slot(2, 11)}
SampleId(t) == IF t = Slot(1, 10) THEN 1 ELSE IF t = Slot(2, 11) THEN 3 ELSE 2
SampleVisits(times) ==
    { [id |-> SampleId(t), threadId |-> "sample", scheduledTime |-> t, status |-> "scheduled",
       carListingId |-> NoId] :
        t \in times }

\* Calendars with one visit every two hours, as earlier calls of the engine
\* leave them (a dealer-proposed time is booked at any hour of the day):
\* BusyTimes occupies every whole hour from 9 to 17 of Saturday and 9 and
\* 10 of Sunday; EarlyBusyTimes is the same calendar five hours earlier.
BusyTimes ==
    {Slot(1, 9) + 1, Slot(1, 11) + 1, Slot(1, 13) + 1, Slot(1, 15) + 1, Slot(1, 17),
     Slot(2, 9) + 1}
EarlyBusyTimes == { t - CentralUtcOffset : t \in BusyTimes }
BusyVisits(times) ==
    { [id |-> 0 - t, threadId |-> "earlier", scheduledTime |-> t, status |-> "scheduled",
       carListingId |-> NoId] :
        t \in times }

\* Friday 08:00, Friday 13:00, Saturday 09:30
NowChoices == {Slot(0, 8), Slot(0, 13), Slot(1, 9) + 1}

Threads == {"A", "B"}
NoTask == 0


\* ---------------------------------------------------------------------
\* Texts.  An agent reply is a sequence of tokens: plain text and the two
\* control markers.  A message of the engine is named by its kind and time.
\* ---------------------------------------------------------------------
WaitingMarker == "# WAITING #"
ScheduleMarker == "#SCHEDULE#"

AgentReplies ==
    { <<"text">>, <<WaitingMarker>>, <<"text", ScheduleMarker>>,
      <<"text", WaitingMarker, ScheduleMarker>> }
\* <<>>: get_ai_response raised (the call failed or the output was empty)
AgentFailed == <<>>
AgentOutcomes == AgentReplies \cup {AgentFailed}

NoText == [src |-> "", tokens |-> <<>>, kind |-> "", time |-> NoTime]
DealerText == [src |-> "dealer", tokens |-> <<>>, kind |-> "", time |-> NoTime]
AgentText(tokens) == [src |-> "agent", tokens |-> tokens, kind |-> "", time |-> NoTime]
EngineText(result) == [src |-> "engine", tokens |-> <<>>, kind |-> result.kind, time |-> result.time]

\* "marker" in ai_response
HasMarker(reply, m) == \E i \in 1..Len(reply) : reply[i] = m
\* ai_response.replace(marker, "").strip()
RemoveMarker(reply, m) == LET Keep(x) == x # m IN SelectSeq(reply, Keep)
\* ai_response.replace("# WAITING #", "").strip() or "Thank you"
ThankYouMessage(reply) ==
    LET rest == RemoveMarker(reply, WaitingMarker)
    IN  IF rest = <<>> THEN <<"Thank you">> ELSE rest

\* ---------------------------------------------------------------------
\* message_contains_new_information.  A dealer message is the set of the
\* pieces it contains: acknowledgment phrases, a digit, a dollar sign,
\* other words.  The answer of the language model is "YES", "NO", another
\* text, or "error" when the call raised.
\* ---------------------------------------------------------------------
AcknowledgmentPatterns == {"will get back", "still gathering"}
MessagePieces == AcknowledgmentPatterns \cup {"7", "$", "the car is clean"}
AllMessages == (SUBSET MessagePieces) \ {{}}
ClassifierAnswers == {"YES", "NO", "NOT SURE", "error"}
NotAsked == "not asked"

\* (variant: the digit and the dollar sign are not looked at)
IsJustAcknowledgmentByPattern(m) == m \cap AcknowledgmentPatterns # {}
\* any(re.search(pattern, ...)) and not re.search(r'\d+', message) and '$' not in message
IsJustAcknowledgment(m) ==
    /\ m \cap AcknowledgmentPatterns # {}
    /\ "7" \notin m
    /\ "$" \notin m

\* (variant: a failed call counts as "no new information")
AnswerMeansNewInformationStrict(answer) == answer = "YES"
\* return response == 'YES'; except Exception: return True
AnswerMeansNewInformation(answer) ==
    IF answer = "error" THEN TRUE ELSE answer = "YES"

\* the language model is asked unless the fast path answers
ClassifierAsks(m) == ~IsJustAcknowledgment(m)

MessageContainsNewInformation(m, answer) ==
    IF IsJustAcknowledgment(m) THEN FALSE ELSE AnswerMeansNewInformation(answer)

\* the dealer messages of the pipeline: a bare acknowledgment, and a
\* message with a number in it
DealerMessages == {{"will get back"}, {"the car is clean", "7"}}

\* ---------------------------------------------------------------------
\* send_sms: one attempt ends "ok", "net" (ConnectionError or Timeout) or
\* "err" (any other RequestException, or no API key)
\* ---------------------------------------------------------------------
SmsRetries == 3
SmsOutcomes == {"ok", "net", "err"}
\* (variant: every failure is retried while attempts remain)
SendResultRetryAny(attempt, outcome) ==
    IF outcome = "ok" THEN "sent"
    ELSE IF attempt < SmsRetries THEN "retry"
    ELSE "raised"
SendResult(attempt, outcome) ==
    IF outcome = "ok" THEN "sent"
    ELSE IF outcome = "net" /\ attempt < SmsRetries THEN "retry"
    ELSE "raised"

\* ---------------------------------------------------------------------
\* Collections
\* ---------------------------------------------------------------------
\* A phone number's threads: docs counts the thread documents that carry
\* the number (the phoneNumber index is not unique), unread is unreadCount.
\* A thread's listings: docs counts the carlistings documents of the thread.
NoThread == [exists |-> FALSE, complete |-> FALSE, waiting |-> FALSE, docs |-> 0, unread |-> 0]
NoListing == [exists |-> FALSE, keyFields |-> FALSE, complete |-> FALSE, docs |-> 0]

\* (variant: the lookup by phone number finds nothing)
ThreadFoundNever(th) == FALSE
\* thread = Thread.find_one({"phoneNumber": sender_phone})
ThreadFound(th) == th.docs > 0

\* if not thread: Thread.create(...), unreadCount 1
\* else: Thread.update_one(..., unreadCount + 1)
FindOrCreateThread(th) ==
    IF ThreadFound(th)
    THEN [th EXCEPT !.unread = @ + 1]
    ELSE [th EXCEPT !.exists = TRUE, !.docs = @ + 1, !.unread = 1]

InboundCount(t) ==
    Cardinality({ i \in 1..Len(msgs[t]) : msgs[t][i].direction = "inbound" })

RECURSIVE SumInbound(_)
SumInbound(S) ==
    IF S = {} THEN 0
    ELSE LET t == CHOOSE x \in S : TRUE IN InboundCount(t) + SumInbound(S \ {t})
TotalInbound == SumInbound(Threads)

\* Message.create of an outbound message
Outbound(log, text) == Append(log, [direction |-> "outbound", body |-> text])
\* (variant: the new message takes the place of the log)
InboundReplacing(log) == <<[direction |-> "inbound", body |-> DealerText]>>
\* Message.create of the inbound message
Inbound(log) == Append(log, [direction |-> "inbound", body |-> DealerText])

SentEntry(t, text, via, forMsg, inboundNow) ==
    [thread |-> t, text |-> text, via |-> via, forMsg |-> forMsg, inboundAtSend |-> inboundNow]

\* ---------------------------------------------------------------------
\* The decisions of sms_webhook
\* ---------------------------------------------------------------------
\* (variant: the check is missing)
ReturnsWhenCompleteNever(th) == FALSE
\* if thread.get("conversationComplete"): return
ReturnsWhenComplete(th) == th.complete

\* (variant: the classifier's answer is ignored)
KeepsWaitingNever(th, newInfo) == FALSE
\* waiting and the classifier found no new information: return
KeepsWaiting(th, newInfo) == th.waiting /\ ~newInfo

\* (variant: the classifier is consulted for every message)
ConsultsClassifierAlways(th) == TRUE
\* if thread.get("waitingForDealerResponse"):
ConsultsClassifier(th) == th.waiting

\* (variant: the map entry is deleted, the task not cancelled)
CancelledTasksNoCancel(t) == tasks
\* pending_responses[thread].task.cancel(); del pending_responses[thread]
CancelledTasks(t) == { k \in tasks : k.id # pending[t] }
\* (variant: the map is emptied)
CancelledPendingAll(t) == [u \in Threads |-> NoTask]
CancelledPending(t) == [pending EXCEPT ![t] = NoTask]

\* (variant: the failure of the agent call is not noticed)
AgentSucceededAlways(reply) == TRUE
\* get_ai_response returned a text: it raises on an error of the call and
\* on an empty completion, and the except around the reply logic of
\* sms_webhook ends the processing of the message
AgentSucceeded(reply) == reply # AgentFailed

EntersWaiting(reply) == HasMarker(reply, WaitingMarker)
ReadyToSchedule(reply) == HasMarker(reply, ScheduleMarker)

\* (variant: the engine is tried whenever the dealer asks about a visit)
ListingHasKeyFieldsAlways(l) == TRUE
\* car_listing and make and model and year
ListingHasKeyFields(l) == l.exists /\ l.keyFields

\* the branch that registers the deferred send: the final else of
\* if "#SCHEDULE#" ... elif check_if_message_about_visit_scheduling ... else
\* (variant: the deferred-send flow follows every branch)
RegistersDeferredAlways(reply, aboutVisit) == TRUE
RegistersDeferred(reply, aboutVisit) ==
    ~ReadyToSchedule(reply) /\ ~aboutVisit

\* ---------------------------------------------------------------------
\* What a handler does once its send_sms has returned or raised
\* ---------------------------------------------------------------------
ExtractOutcomes == {"fail", "nokeys", "keys"}

\* (variant: the thread is marked complete only when the send succeeded)
FinishThreadOnSuccess(th, path, success) ==
    IF ~success THEN th
    ELSE IF path = "wait" THEN [th EXCEPT !.waiting = TRUE] ELSE [th EXCEPT !.complete = TRUE]

\* (variant: every resolved send marks the thread complete)
FinishThreadCompletesAlways(th, path, success) == [th EXCEPT !.complete = TRUE]

\* (variant: the waiting update sits outside the try of the send)
FinishThreadUnchecked(th, path, success) ==
    IF path = "wait" THEN [th EXCEPT !.waiting = TRUE] ELSE [th EXCEPT !.complete = TRUE]

FinishThread(th, path, success) ==
    IF path = "wait"
    THEN IF success THEN [th EXCEPT !.waiting = TRUE] ELSE th
    ELSE [th EXCEPT !.complete = TRUE]

\* car_listing = CarListing.find_one({"threadId": thread["_id"]})
ListingFound(l) == l.exists

\* CarListing.update_one({"threadId": ...}, {**extracted_data, ...}): the
\* document of the thread, when there is one
UpdateListing(l, keys) ==
    IF l.docs > 0 THEN [l EXCEPT !.keyFields = keys, !.complete = TRUE] ELSE l

\* CarListing.create under the unique index on threadId: the insert of a
\* second document of the thread raises, and the except around the
\* finalization swallows the error
CreateListing(l, keys) ==
    IF l.docs = 0
    THEN [exists |-> TRUE, keyFields |-> keys, complete |-> TRUE, docs |-> 1]
    ELSE l

\* (variant: no lookup and no unique index, every finalization inserts)
FinishListingInsertsAlways(l, path, snapshotComplete, extract) ==
    IF path = "wait" \/ extract = "fail" THEN l
    ELSE [exists |-> TRUE, keyFields |-> (extract = "keys"), complete |-> TRUE,
          docs |-> l.docs + 1]

\* #SCHEDULE# path: update the listing if one exists, else create it;
\* keyword path: update only a listing not yet marked complete
FinishListing(l, path, snapshotComplete, extract) ==
    IF path = "wait" \/ extract = "fail" THEN l
    ELSE IF path = "sched"
    THEN IF ListingFound(l) THEN UpdateListing(l, extract = "keys")
         ELSE CreateListing(l, extract = "keys")
    ELSE IF ~snapshotComplete
    THEN UpdateListing(l, extract = "keys")
    ELSE l

\* what the finalization did with the listing: nothing, an update, an insert
ListingStep(l, path, snapshotComplete, extract) ==
    IF path = "wait" \/ extract = "fail" \/ extract = "none" THEN "none"
    ELSE IF path = "sched"
    THEN IF ListingFound(l) THEN "updated" ELSE "created"
    ELSE IF ~snapshotComplete THEN "updated"
    ELSE "none"

EvNone ==
    [op |-> "init", thread |-> "", msg |-> 0, wasComplete |-> FALSE, wasWaiting |-> FALSE,
     classified |-> FALSE, newInfo |-> FALSE, cancelled |-> FALSE, agentCalled |-> FALSE,
     flagAtAgent |-> FALSE, reply |-> <<>>, path |-> "", aboutVisit |-> FALSE,
     engineCalled |-> FALSE, visitCreated |-> NoTime, smsTried |-> FALSE, smsSent |-> FALSE,
     text |-> NoText, recorded |-> FALSE, registered |-> FALSE, finished |-> TRUE,
     waitingBeforeSend |-> FALSE, body |-> {}, llmAsked |-> FALSE, answer |-> NotAsked,
     attempt |-> 0, smsOutcome |-> "none", status |-> 0, listing |-> "none",
     from |-> NoTime, to |-> NoTime, result |-> <<>>]

\* ---------------------------------------------------------------------
\* The front of sms_webhook: the request model, the required-field check
\* and the opt-in filter.  A payload is the two required fields and the
\* set of fields the request body carries.
\* ---------------------------------------------------------------------
Success == 200
BadRequest == 400
Unprocessable == 422
ServerError == 500
NoStatus == 0

NoNumber == ""
RequiredFields == {"fromNumber", "message"}
OptInPiece == "Thanks for opting in to receive messages from us!"

Payload(from, body, fields) == [fromNumber |-> from, message |-> body, fields |-> fields]

\* class SMSWebhook(BaseModel): fromNumber: str, message: str, the rest
\* Optional; a body without a required field never reaches the handler
ModelAccepts(p) == RequiredFields \subseteq p.fields

\* if not sender_phone or not message_body
MissingRequiredFields(p) == p.fromNumber = NoNumber \/ p.message = {}

\* (variant: the filter is missing)
IsOptInNever(body) == FALSE
\* re.search(opt_in_pattern, message_body, re.IGNORECASE)
IsOptIn(body) == OptInPiece \in body

\* the handler's body is one try; its "except Exception" answers every
\* exception raised inside, an HTTPException included, with a new
\* HTTPException(status_code=500)
OuterExcept(raised) == ServerError

Gate(p) ==
    IF ~ModelAccepts(p) THEN "invalid"
    ELSE IF MissingRequiredFields(p) THEN "rejected"
    ELSE IF IsOptIn(p.message) THEN "filtered"
    ELSE "accepted"

\* the status of the response to a request that ends at the gate
GateStatus(p) ==
    IF ~ModelAccepts(p) THEN Unprocessable
    ELSE IF MissingRequiredFields(p) THEN OuterExcept(BadRequest)
    ELSE Success


\* ---------------------------------------------------------------------
\* sms_webhook: one inbound message of dealer t, from the find-or-create
\* of the thread to the handler's return or to its first suspension (the
\* retry sleep inside send_sms is the only await of the handler that
\* yields to the event loop; every other call runs to completion).
\*   body      the text of the message
\*   answer    the language model behind message_contains_new_information
\*   reply     get_ai_response
\*   about     check_if_message_about_visit_scheduling (the elif)
\*   llm       the extraction call of process_visit_scheduling
\*   sms       the first attempt of send_sms
\*   extract   extract_car_listing_data
\* ---------------------------------------------------------------------
PipelineTimes == {Slot(1, 15)}

Accepted(t, body) ==
    /\ TotalInbound < limit
    /\ LET th == thr[t]
           k == InboundCount(t) + 1
           classified == ~ReturnsWhenComplete(th) /\ ConsultsClassifier(th)
       IN
       \E answer \in (IF classified /\ ClassifierAsks(body)
                      THEN ClassifierAnswers ELSE {NotAsked}) :
       LET newInfo == IF classified THEN MessageContainsNewInformation(body, answer)
                      ELSE TRUE
           proceeds == ~ReturnsWhenComplete(th) /\ ~KeepsWaiting(th, newInfo)
           thr1 == [thr EXCEPT ![t] = FindOrCreateThread(@)]
           thr2 == IF proceeds /\ th.waiting
                   THEN [thr1 EXCEPT ![t].waiting = FALSE] ELSE thr1
           pend1 == IF proceeds THEN CancelledPending(t) ELSE pending
           tasks1 == IF proceeds THEN CancelledTasks(t) ELSE tasks
       IN
       \E reply \in (IF proceeds THEN AgentOutcomes ELSE {AgentFailed}) :
       LET agentOk == proceeds /\ AgentSucceeded(reply)
           wait == agentOk /\ EntersWaiting(reply)
           sched == agentOk /\ ~wait /\ ReadyToSchedule(reply)
           elif == agentOk /\ ~wait /\ ~sched
       IN
       \E about \in (IF elif THEN BOOLEAN ELSE {FALSE}) :
       LET aboutEngine == elif /\ about /\ ListingHasKeyFields(listings[t])
           engineCalled == sched \/ aboutEngine
           defer == agentOk /\ ~wait /\ RegistersDeferred(reply, about)
       IN
       \E llm \in (IF engineCalled THEN LlmOutcomes(PipelineTimes) ELSE {NoLlm}) :
       \E call \in {IF engineCalled THEN EngineCall(t, llm) ELSE NoCall} :
       LET result == call.result
           booked == engineCalled /\ result.visit_scheduled
           sendTried == wait \/ booked
           path == IF ReturnsWhenComplete(th) THEN "complete"
                   ELSE IF ~proceeds THEN "suppressed"
                   ELSE IF ~agentOk THEN "agent_failed"
                   ELSE IF wait THEN "wait"
                   ELSE IF sched THEN "sched"
                   ELSE IF about THEN "about"
                   ELSE "defer"
           text == IF wait THEN AgentText(ThankYouMessage(reply))
                   ELSE IF booked THEN EngineText(result)
                   ELSE IF defer THEN AgentText(reply)
                   ELSE NoText
       IN
       \E sms \in (IF sendTried THEN SmsOutcomes ELSE {"none"}) :
       LET sres == IF sendTried THEN SendResult(1, sms) ELSE "none"
           resolved == sres \in {"sent", "raised"}
           msgs1 == [msgs EXCEPT ![t] = Inbound(@)]
       IN
       \E extract \in (IF booked /\ resolved THEN ExtractOutcomes ELSE {"none"}) :
          /\ msgs' = IF sres = "sent" THEN [msgs1 EXCEPT ![t] = Outbound(@, text)] ELSE msgs1
          /\ sent' = IF sres = "sent"
                     THEN Append(sent, SentEntry(t, text, "immediate", k, k)) ELSE sent
          /\ thr' = IF resolved
                    THEN [thr2 EXCEPT ![t] = FinishThread(@, path, sres = "sent")] ELSE thr2
          /\ listings' = IF resolved /\ booked
                         THEN [listings EXCEPT
                                 ![t] = FinishListing(@, path, listings[t].complete, extract)]
                         ELSE listings
          /\ handlers' = IF sres = "retry"
                         THEN handlers \cup
                                {[thread |-> t, path |-> path, text |-> text, attempt |-> 2,
                                  forMsg |-> k, reply |-> reply,
                                  listingComplete |-> listings[t].complete]}
                         ELSE handlers
          /\ tasks' = IF defer
                      THEN tasks1 \cup {[id |-> nextTask, thread |-> t, text |-> text,
                                         forMsg |-> k, st |-> "sleeping", attempt |-> 1]}
                      ELSE tasks1
          /\ pending' = IF defer THEN [pend1 EXCEPT ![t] = nextTask] ELSE pend1
          /\ nextTask' = IF defer THEN nextTask + 1 ELSE nextTask
          /\ visits' = IF engineCalled
                       THEN VisitsAfter(visits, nextVisitId, t, result) ELSE visits
          /\ nextVisitId' = IF engineCalled /\ result.time # NoTime
                            THEN nextVisitId + 1 ELSE nextVisitId
          /\ schedCall' = IF engineCalled THEN call ELSE schedCall
          /\ ev' = [op |-> "webhook", thread |-> t, msg |-> k,
                    wasComplete |-> th.complete, wasWaiting |-> th.waiting,
                    classified |-> classified, newInfo |-> (classified /\ newInfo),
                    cancelled |-> (proceeds /\ pending[t] # NoTask),
                    agentCalled |-> proceeds, flagAtAgent |-> thr2[t].waiting,
                    reply |-> reply, path |-> path, aboutVisit |-> about,
                    engineCalled |-> engineCalled,
                    visitCreated |-> (IF engineCalled THEN result.time ELSE NoTime),
                    smsTried |-> sendTried, smsSent |-> (sres = "sent"), text |-> text,
                    recorded |-> (sres = "sent"), registered |-> defer,
                    finished |-> (sres # "retry"),
                    waitingBeforeSend |-> thr2[t].waiting,
                    body |-> body, llmAsked |-> (answer # NotAsked), answer |-> answer,
                    attempt |-> 0, smsOutcome |-> "none",
                    status |-> (IF sres = "retry" THEN NoStatus ELSE Success),
                    listing |-> (IF resolved /\ booked
                                 THEN ListingStep(listings[t], path, listings[t].complete,
                                                  extract)
                                 ELSE "none")]
          /\ UNCHANGED <<now, ticks, limit>>

\* a message of dealer t that passes the gate
Webhook(t) ==
    \E body \in DealerMessages :
        /\ Gate(Payload(t, body, RequiredFields)) = "accepted"
        /\ Accepted(t, body)

\* any request: the payloads the gate stops end here, with every
\* collection, the pending map and the tasks as they were
Request(p) ==
    IF Gate(p) = "accepted"
    THEN Accepted(p.fromNumber, p.message)
    ELSE /\ ev' = [EvNone EXCEPT !.op = Gate(p),
                                 !.thread = (IF ModelAccepts(p) THEN p.fromNumber ELSE ""),
                                 !.body = (IF ModelAccepts(p) THEN p.message ELSE {}),
                                 !.status = GateStatus(p)]
         /\ UNCHANGED <<thr, msgs, listings, visits, nextVisitId, pending, tasks, nextTask,
                        handlers, sent, now, ticks, schedCall, limit>>

\* ---------------------------------------------------------------------
\* A suspended handler wakes from the retry sleep of send_sms and makes
\* its next attempt; when send_sms has returned or raised, the handler
\* runs to its return.
\* ---------------------------------------------------------------------
HandlerResume(h) ==
    /\ h \in handlers
    /\ \E sms \in SmsOutcomes :
       LET sres == SendResult(h.attempt, sms)
           t == h.thread
           base == [EvNone EXCEPT !.op = "resume", !.thread = t, !.msg = h.forMsg,
                                  !.reply = h.reply, !.path = h.path, !.text = h.text,
                                  !.smsTried = TRUE,
                                  !.waitingBeforeSend = thr[t].waiting]
       IN  IF sres = "retry"
           THEN /\ handlers' = (handlers \ {h}) \cup {[h EXCEPT !.attempt = @ + 1]}
                /\ ev' = [base EXCEPT !.finished = FALSE]
                /\ UNCHANGED <<thr, msgs, listings, sent>>
           ELSE \E extract \in (IF h.path = "wait" THEN {"none"} ELSE ExtractOutcomes) :
                /\ handlers' = handlers \ {h}
                /\ msgs' = IF sres = "sent" THEN [msgs EXCEPT ![t] = Outbound(@, h.text)]
                           ELSE msgs
                /\ sent' = IF sres = "sent"
                           THEN Append(sent, SentEntry(t, h.text, "immediate", h.forMsg,
                                                       InboundCount(t)))
                           ELSE sent
                /\ thr' = [thr EXCEPT ![t] = FinishThread(@, h.path, sres = "sent")]
                /\ listings' = [listings EXCEPT
                                  ![t] = FinishListing(@, h.path, h.listingComplete, extract)]
                /\ ev' = [base EXCEPT !.smsSent = (sres = "sent"),
                                      !.recorded = (sres = "sent"),
                                      !.status = Success,
                                      !.listing = ListingStep(listings[t], h.path,
                                                              h.listingComplete, extract)]
    /\ UNCHANGED <<visits, nextVisitId, pending, tasks, nextTask, now, ticks, schedCall,
                   limit>>

\* ---------------------------------------------------------------------
\* send_delayed_response: the deferred-send task
\* ---------------------------------------------------------------------
\* (variant: the task leaves the map as it is)
EndedPendingKept(t) == pending
\* if thread_id_string in pending_responses: del pending_responses[...],
\* after the send and in the except of the task alike
EndedPending(t) == [pending EXCEPT ![t] = NoTask]

\* one attempt of the task's send_sms and what follows it
TaskSend(k, sms) ==
    LET sres == SendResult(k.attempt, sms)
        t == k.thread
        base == [EvNone EXCEPT !.op = "deferred", !.thread = t, !.msg = k.forMsg,
                               !.path = "defer", !.text = k.text, !.smsTried = TRUE]
    IN  IF sres = "retry"
        THEN /\ tasks' = (tasks \ {k}) \cup {[k EXCEPT !.st = "retry", !.attempt = @ + 1]}
             /\ ev' = [base EXCEPT !.finished = FALSE]
             /\ UNCHANGED <<msgs, sent, pending>>
        ELSE /\ tasks' = tasks \ {k}
             /\ pending' = EndedPending(t)
             /\ msgs' = IF sres = "sent" THEN [msgs EXCEPT ![t] = Outbound(@, k.text)]
                        ELSE msgs
             /\ sent' = IF sres = "sent"
                        THEN Append(sent, SentEntry(t, k.text, "deferred", k.forMsg,
                                                    InboundCount(t)))
                        ELSE sent
             /\ ev' = [base EXCEPT !.smsSent = (sres = "sent"), !.recorded = (sres = "sent")]

\* the delay has elapsed: the cancellation check, then the first attempt
TaskWake(k) ==
    /\ k \in tasks
    /\ k.st = "sleeping"
    /\ IF pending[k.thread] = NoTask
       THEN /\ tasks' = tasks \ {k}
            /\ ev' = [EvNone EXCEPT !.op = "deferred", !.thread = k.thread,
                                    !.msg = k.forMsg, !.path = "defer", !.text = k.text]
            /\ UNCHANGED <<msgs, sent, pending>>
       ELSE \E sms \in SmsOutcomes : TaskSend(k, sms)
    /\ UNCHANGED <<thr, listings, visits, nextVisitId, nextTask, handlers, now, ticks,
                   schedCall, limit>>

\* the task wakes from the retry sleep of send_sms
TaskRetry(k) ==
    /\ k \in tasks
    /\ k.st = "retry"
    /\ \E sms \in SmsOutcomes : TaskSend(k, sms)
    /\ UNCHANGED <<thr, listings, visits, nextVisitId, nextTask, handlers, now, ticks,
                   schedCall, limit>>

\* ---------------------------------------------------------------------
\* The pipeline
\* ---------------------------------------------------------------------
InitPipeline ==
    /\ thr = [t \in Threads |-> NoThread]
    /\ msgs = [t \in Threads |-> <<>>]
    /\ listings = [t \in Threads |-> NoListing]
    /\ pending = [t \in Threads |-> NoTask]
    /\ tasks = {}
    /\ nextTask = 1
    /\ handlers = {}
    /\ sent = <<>>
    /\ ev = EvNone
    /\ nextVisitId = 4
    /\ ticks = 0
    /\ schedCall = NoCall

InitStore ==
    /\ InitPipeline
    /\ visits = SampleVisits(SampleTimes)
    /\ now = Slot(0, 13)

Init == InitStore /\ limit = MaxInbound

Next ==
    \/ \E t \in Threads : Webhook(t)
    \/ \E h \in handlers : HandlerResume(h)
    \/ \E k \in tasks : TaskWake(k)
    \/ \E k \in tasks : TaskRetry(k)

Spec == Init /\ [][Next]_vars

\* the same pipeline, one inbound message more: three messages are the
\* fewest with which a handler suspended in send_sms, a reply registered
\* meanwhile and a later message of the same thread come together
DeepInit == InitStore /\ limit = MaxInbound + 1
DeepSpec == DeepInit /\ [][Next]_vars

\* ---------------------------------------------------------------------
\* The endpoint with every kind of request: bodies without a required
\* field, empty fields, the provider's opt-in text, dealer messages.  One
\* accepted message is enough to have a thread, a stored message and a
\* pending reply in front of the requests the gate stops.
\* ---------------------------------------------------------------------
RequestBodies == DealerMessages \cup {{}, {OptInPiece}, {OptInPiece, "7"}}
Payloads ==
    { Payload(f, b, RequiredFields) : f \in Threads \cup {NoNumber}, b \in RequestBodies }
        \cup { Payload(NoNumber, {}, {x}) : x \in RequiredFields }

GateNext ==
    \/ \E p \in Payloads : Request(p)
    \/ \E h \in handlers : HandlerResume(h)
    \/ \E k \in tasks : TaskWake(k)
    \/ \E k \in tasks : TaskRetry(k)

GateInit == InitStore /\ limit = MaxInbound - 1
GateSpec == GateInit /\ [][GateNext]_vars

\* ---------------------------------------------------------------------
\* The scheduling engine on its own: calls of process_visit_scheduling
\* for any thread with any answer of the extraction call, visits being
\* cancelled (modify_visit), the clock advancing
\* ---------------------------------------------------------------------
\* dealer-proposed times: just before now, just after the window, around
\* Saturday 10:00 (a sample visit) and around Saturday 15:00
DealerTimes(nowT) ==
    {nowT - 1, nowT + WindowUnits + 1}
        \cup ((Slot(1, 10) - 1)..(Slot(1, 10) + 1))
        \cup ((Slot(1, 15) - 2)..(Slot(1, 15) + 2))

SchedCall(t, llm) ==
    /\ nextVisitId - 4 < MaxSchedCalls
    /\ \E call \in {EngineCall(t, llm)} :
           /\ schedCall' = call
           /\ visits' = VisitsAfter(visits, nextVisitId, t, call.result)
           /\ nextVisitId' = IF call.result.time # NoTime THEN nextVisitId + 1
                             ELSE nextVisitId
    /\ UNCHANGED <<pipelineVars, now, ticks, limit>>

\* modify_visit(visit_id, status = "cancelled")
CancelVisit(v) ==
    /\ v \in visits
    /\ v.status = "scheduled"
    /\ Cardinality({ w \in visits : w.status = "cancelled" }) < MaxCancels
    /\ visits' = (visits \ {v}) \cup {[v EXCEPT !.status = "cancelled"]}
    /\ UNCHANGED <<pipelineVars, nextVisitId, now, ticks, schedCall, limit>>

Tick ==
    /\ ticks < MaxTicks
    /\ now' = now + 1
    /\ ticks' = ticks + 1
    /\ UNCHANGED <<pipelineVars, visits, nextVisitId, schedCall, limit>>

SchedInit ==
    /\ InitPipeline
    /\ limit = 0
    /\ visits \in {SampleVisits(S) : S \in SUBSET SampleTimes}
    /\ now \in NowChoices

SchedNext ==
    \/ \E t \in Threads : \E llm \in LlmOutcomes(DealerTimes(now)) : SchedCall(t, llm)
    \/ \E v \in visits : CancelVisit(v)
    \/ Tick

SchedSpec == SchedInit /\ [][SchedNext]_vars

\* ---------------------------------------------------------------------
\* get_ai_response: the "already known" section of the system prompt.
\* known_data maps the twelve fields to values; a value is named by what
\* Python makes of it: None (or the key missing), the empty string, a
\* text, the number 0, another number, False, True.
\* ---------------------------------------------------------------------
MaxFacts == 2

Fields ==
    {"make", "model", "year", "miles", "listingPrice", "tireLifeLeft", "titleStatus",
     "carfaxDamageIncidents", "docFeeQuoted", "docFeeNegotiable", "docFeeAgreed",
     "lowestPrice"}
None == "None"

\* what a field can hold besides None
FieldValues(f) ==
    IF f \in {"make", "model", "titleStatus"} THEN {"", "text"}
    ELSE IF f = "carfaxDamageIncidents" THEN {"text"}
    ELSE IF f = "year" THEN {"number"}
    ELSE IF f \in {"tireLifeLeft", "docFeeNegotiable"} THEN {"False", "True"}
    ELSE {"0", "number"}

\* bool(v) is False
Falsy(v) == v \in {None, "", "0", "False"}

\* if known_data.get('make'): ... (make, model, year, titleStatus)
TruthTested == {"make", "model", "year", "titleStatus"}

\* (variant: every field is tested for truth)
KnownFieldsTruthOnly(K) == { f \in Fields : ~Falsy(K[f]) }
\* known_fields: a line for a truth-tested field whose value is true, and
\* for any other field whose value is not None
KnownFields(K) ==
    { f \in Fields : IF f \in TruthTested THEN ~Falsy(K[f]) ELSE K[f] # None }

\* if known_fields: "IMPORTANT: You already have the following
\* information (do NOT ask for these again): ..."
KnownInfoSection(K) == KnownFields(K) # {}

NoFacts == [f \in Fields |-> None]
\* sms_webhook: known_data = None
PipelineKnownData == NoFacts

\* the known-facts sets with at most MaxFacts fields that are not None
FactSets ==
    UNION { { [f \in Fields |-> IF f \in S THEN vals[f] ELSE None] :
                vals \in [S -> UNION { FieldValues(f) : f \in S }] } :
            S \in { T \in SUBSET Fields : Cardinality(T) <= MaxFacts } }
WellTyped(K) == \A f \in Fields : K[f] = None \/ K[f] \in FieldValues(f)

Transcripts == {"", "Dealer: the car is clean"}

GetAiResponse(K, transcript) ==
    /\ ev' = [op |-> "prompt", known |-> K, transcript |-> transcript,
              listed |-> KnownFields(K), section |-> KnownInfoSection(K)]
    /\ UNCHANGED <<thr, msgs, listings, visits, nextVisitId, pending, tasks, nextTask,
                   handlers, sent, now, ticks, schedCall, limit>>

\* the function keeps no state between calls: one call per behaviour
\* covers every call
PromptNext ==
    \/ ev.op # "prompt" /\ \E K \in FactSets : \E tr \in Transcripts :
                               WellTyped(K) /\ GetAiResponse(K, tr)
    \/ ev.op # "prompt" /\ \E tr \in Transcripts : GetAiResponse(PipelineKnownData, tr)

PromptInit == InitStore /\ limit = 0
PromptSpec == PromptInit /\ [][PromptNext]_vars

\* ---------------------------------------------------------------------
\* GET /api/visits: the visits query of the dashboard
\* ---------------------------------------------------------------------
\* query["scheduledTime"] = {"$gte": start, "$lte": end} for the bounds
\* given (NoTime: not given), query["status"] = {"$ne": "cancelled"};
\* a naive bound is taken as Central Time
VisitsQuery(db, start, end) ==
    { v \in db : /\ (start = NoTime \/ v.scheduledTime >= start)
                 /\ (end = NoTime \/ v.scheduledTime <= end)
                 /\ v.status # "cancelled" }

\* Visit.find(query, sort=[("scheduledTime", 1)])
RECURSIVE SortByTime(_)
SortByTime(S) ==
    IF S = {} THEN <<>>
    ELSE LET first == CHOOSE v \in S : \A w \in S :
                          \/ v.scheduledTime < w.scheduledTime
                          \/ v.scheduledTime = w.scheduledTime /\ v.id <= w.id
         IN  <<first>> \o SortByTime(S \ {first})

\* one element of the answer: the visit, its carListing when the visit
\* has a carListingId and CarListing.find_by_id finds it, its thread when
\* Thread.find_by_id finds it (the threads of the sample visits exist)
Serialized(v) ==
    [id |-> v.id, threadId |-> v.threadId, scheduledTime |-> v.scheduledTime,
     status |-> v.status,
     carListing |-> (v.carListingId # NoId /\ listings[v.carListingId].docs > 0),
     thread |-> (IF v.threadId \in Threads THEN thr[v.threadId].docs > 0 ELSE TRUE)]

GetVisitsResult(db, start, end) ==
    LET found == SortByTime(VisitsQuery(db, start, end))
    IN  [i \in 1..Len(found) |-> Serialized(found[i])]

\* no range; all of Saturday; from Saturday 10:00 to Saturday 10:00; from
\* Saturday 10:30 on; up to Friday midnight
QueryRanges ==
    {<<NoTime, NoTime>>, <<Slot(1, 0), Slot(2, 0)>>, <<Slot(1, 10), Slot(1, 10)>>,
     <<Slot(1, 10) + 1, NoTime>>, <<NoTime, Slot(1, 0)>>}

GetVisits(start, end) ==
    /\ ev' = [EvNone EXCEPT !.op = "get_visits", !.from = start, !.to = end,
                            !.result = GetVisitsResult(visits, start, end)]
    /\ UNCHANGED <<thr, msgs, listings, visits, nextVisitId, pending, tasks, nextTask,
                   handlers, sent, now, ticks, schedCall, limit>>

\* the pipeline with the dashboard's query and the cancellation of visits
VisitsNext ==
    \/ Next
    \/ \E r \in QueryRanges : GetVisits(r[1], r[2])
    \/ \E v \in visits : CancelVisit(v)

VisitsInit == InitStore /\ limit = MaxInbound - 1
VisitsSpec == VisitsInit /\ [][VisitsNext]_vars

\* ---------------------------------------------------------------------
\* The classifier on its own: any message, any answer of the model
\* ---------------------------------------------------------------------
Classify(m, answer) ==
    /\ ev' = [EvNone EXCEPT !.op = "classify", !.body = m, !.classified = TRUE,
                            !.llmAsked = (answer # NotAsked), !.answer = answer,
                            !.newInfo = MessageContainsNewInformation(m, answer)]
    /\ UNCHANGED <<thr, msgs, listings, visits, nextVisitId, pending, tasks, nextTask,
                   handlers, sent, now, ticks, schedCall, limit>>

ClassifyNext ==
    \E m \in AllMessages :
        \E answer \in (IF ClassifierAsks(m) THEN ClassifierAnswers ELSE {NotAsked}) :
            Classify(m, answer)

ClassifyInit == InitStore /\ limit = 0
ClassifySpec == ClassifyInit /\ [][ClassifyNext]_vars

\* ---------------------------------------------------------------------
\* send_sms on its own: calls one after the other, each a loop of at most
\* SmsRetries attempts; the call in progress is kept in handlers
\* ---------------------------------------------------------------------
SendTexts == {AgentText(<<"text">>), AgentText(<<"Thank you">>)}

SendStart(t, text) ==
    /\ handlers = {}
    /\ Len(sent) < limit
    /\ handlers' = {[thread |-> t, path |-> "send", text |-> text, attempt |-> 1,
                     forMsg |-> 0, reply |-> <<>>, listingComplete |-> FALSE]}
    /\ ev' = [EvNone EXCEPT !.op = "send_start", !.thread = t, !.text = text,
                            !.finished = FALSE]
    /\ UNCHANGED <<thr, msgs, listings, visits, nextVisitId, pending, tasks, nextTask,
                   sent, now, ticks, schedCall, limit>>

\* one pass of the loop: requests.post, then return, sleep and continue, or raise
SendAttempt(h, sms) ==
    /\ h \in handlers
    /\ h.path = "send"
    /\ LET sres == SendResult(h.attempt, sms)
       IN  /\ handlers' = IF sres = "retry" THEN {[h EXCEPT !.attempt = @ + 1]} ELSE {}
           /\ sent' = IF sres = "sent"
                      THEN Append(sent, SentEntry(h.thread, h.text, "immediate", 0, 0))
                      ELSE sent
           /\ ev' = [EvNone EXCEPT !.op = "send", !.thread = h.thread, !.text = h.text,
                                   !.smsTried = TRUE, !.smsSent = (sres = "sent"),
                                   !.finished = (sres # "retry"),
                                   !.attempt = h.attempt, !.smsOutcome = sms]
    /\ UNCHANGED <<thr, msgs, listings, visits, nextVisitId, pending, tasks, nextTask,
                   now, ticks, schedCall, limit>>

SendNext ==
    \/ \E t \in Threads : \E text \in SendTexts : SendStart(t, text)
    \/ \E h \in handlers : \E sms \in SmsOutcomes : SendAttempt(h, sms)

SendInit == InitStore /\ limit = MaxInbound
SendSpec == SendInit /\ [][SendNext]_vars

\* the engine in front of a full calendar, Friday 10:00
BusyInit ==
    /\ InitPipeline
    /\ limit = 0
    /\ visits \in {BusyVisits(BusyTimes), BusyVisits(EarlyBusyTimes)}
    /\ now = Slot(0, 10)

BusySpec == BusyInit /\ [][SchedNext]_vars


\* =====================================================================
\* Properties
\* =====================================================================
HandlerStep == ev.op \in {"webhook", "resume"}
LastMsg(t) == msgs[t][Len(msgs[t])]
LastSent == sent[Len(sent)]
PlainReply(reply) ==
    reply # AgentFailed /\ ~HasMarker(reply, WaitingMarker) /\ ~HasMarker(reply, ScheduleMarker)

\* C1: a deferred reply that was pending when a newer inbound message of
\* its thread arrived is never sent: every deferred reply that was sent
\* answered the newest inbound message of its thread at the time of the send.
C1_StaleReplyNeverSent ==
    \A i \in 1..Len(sent) :
        sent[i].via = "deferred" => sent[i].inboundAtSend = sent[i].forMsg

\* C2: each thread has at most one deferred-send task that is neither
\* finished nor cancelled, and that task is the one the pending map holds
\* for the thread: a newly registered task never coexists with an older one.
C2_OnePendingPerThread ==
    \A t \in Threads :
        /\ Cardinality({ k \in tasks : k.thread = t }) <= 1
        /\ \A k \in tasks : k.thread = t => pending[t] = k.id

\* C2 witness: a handler cancelled an older pending reply and registered a new one
C2_Witness ==
    /\ ev.op = "webhook" /\ ev.cancelled /\ ev.registered
    /\ \E k \in tasks : k.thread = ev.thread /\ k.forMsg = ev.msg

\* C3: when the agent's reply to a processed message carries neither
\* marker, the handler sends nothing itself and registers a pending
\* deferred send of that reply under the thread id.
C3_PlainReplyDeferred ==
    (ev.op = "webhook" /\ ev.agentCalled /\ PlainReply(ev.reply)) =>
        /\ ~ev.smsTried
        /\ ev.registered
        /\ \E k \in tasks : /\ k.id = pending[ev.thread]
                            /\ k.thread = ev.thread
                            /\ k.text = AgentText(ev.reply)

\* C4: on a waiting thread, a message classified as no new information
\* causes no agent call, no send, no scheduling and no registration and
\* leaves the flag set; a message with new information has the flag
\* cleared before the agent runs.
C4_WaitingSuppresses ==
    (ev.op = "webhook" /\ ev.classified) =>
        IF ev.newInfo
        THEN ev.agentCalled /\ ~ev.flagAtAgent
        ELSE /\ ~ev.agentCalled /\ ~ev.engineCalled /\ ~ev.smsTried /\ ~ev.registered
             /\ ~ev.cancelled /\ ev.visitCreated = NoTime
             /\ thr[ev.thread].waiting

\* C4 witness: an acknowledgment arrived on a waiting thread
C4_Witness == ev.op = "webhook" /\ ev.wasWaiting /\ ev.classified /\ ~ev.newInfo

\* C5: an inbound message on a complete thread triggers no agent call, no
\* scheduling call, no send, no visit and no registration, and the flag
\* stays set.
C5_CompleteIsNoOp ==
    (ev.op = "webhook" /\ ev.wasComplete) =>
        /\ ~ev.agentCalled /\ ~ev.engineCalled /\ ~ev.smsTried /\ ~ev.registered
        /\ ev.visitCreated = NoTime
        /\ thr[ev.thread].complete

\* C5 witness: an inbound message arrived on a complete thread
C5_Witness == ev.op = "webhook" /\ ev.wasComplete /\ ev.msg >= 2

\* C6 as stated: a reply with "# WAITING #" is always sent (marker
\* stripped, "Thank you" when nothing remains) by the handler itself,
\* recorded as one outbound message, the thread is marked waiting, and
\* nothing is registered.
C6_WaitAlwaysSends ==
    (HandlerStep /\ ev.path = "wait" /\ ev.finished) =>
        /\ ev.text = AgentText(ThankYouMessage(ev.reply))
        /\ ev.smsSent /\ ev.recorded /\ ~ev.registered
        /\ thr[ev.thread].waiting

\* C6 amended: the handler itself tries to send the reply with the marker
\* stripped ("Thank you" when nothing remains) and registers nothing; if
\* the send succeeds it records that text as one outbound message and
\* marks the thread waiting; if the send fails it records nothing and
\* leaves the waiting flag as it was.
C6_WaitPath ==
    (HandlerStep /\ ev.path = "wait" /\ ev.finished) =>
        /\ ev.text = AgentText(ThankYouMessage(ev.reply))
        /\ ev.smsTried /\ ~ev.registered
        /\ IF ev.smsSent
           THEN /\ LastSent = SentEntry(ev.thread, ev.text, "immediate", ev.msg,
                                        LastSent.inboundAtSend)
                /\ ev.recorded
                /\ LastMsg(ev.thread) = [direction |-> "outbound", body |-> ev.text]
                /\ thr[ev.thread].waiting
           ELSE /\ ~ev.recorded
                /\ thr[ev.thread].waiting = ev.waitingBeforeSend

\* C6 witness: a bare "# WAITING #" reply was answered with "Thank you"
C6_Witness ==
    /\ HandlerStep /\ ev.path = "wait" /\ ev.finished /\ ev.smsSent
    /\ ev.reply = <<WaitingMarker>>
    /\ ev.text.tokens = <<"Thank you">>
    /\ thr[ev.thread].waiting

\* C7: when the agent's reply contains "#SCHEDULE#", the scheduling
\* engine is called and the agent's own text is never sent: whatever is
\* sent for that inbound message is the engine's message.
C7_ScheduleReplyNeverSent ==
    (HandlerStep /\ HasMarker(ev.reply, ScheduleMarker)) =>
        /\ ev.op = "webhook" => ev.engineCalled
        /\ ev.smsSent => ev.text.src = "engine"
        /\ ~ev.registered

\* C8: the scheduling engine is called, and a visit created, only for an
\* inbound message the agent answered with "#SCHEDULE#"; a dealer message
\* about visiting that the agent did not answer with "#SCHEDULE#" leads to
\* no engine call and no visit.
C8_EngineOnlyOnSchedule ==
    /\ (ev.engineCalled \/ ev.visitCreated # NoTime) =>
           ev.op = "webhook" /\ HasMarker(ev.reply, ScheduleMarker)
    /\ (ev.op = "webhook" /\ ev.aboutVisit) =>
           ~ev.engineCalled /\ ev.visitCreated = NoTime
    /\ \A v \in visits : v.threadId \in Threads => thr[v.threadId].exists
    /\ schedCall # NoCall => schedCall.thread \in Threads

\* C8 witness: the dealer asked about visiting, the agent deflected
C8_Witness ==
    /\ ev.op = "webhook" /\ ev.aboutVisit /\ ev.agentCalled
    /\ ~HasMarker(ev.reply, ScheduleMarker)
    /\ ~ev.engineCalled

\* the visits a call could see that lie within one hour of time c
RealConflict(c, db, nowT) ==
    \E v \in db : /\ v.status # "cancelled"
                  /\ v.scheduledTime >= nowT
                  /\ v.scheduledTime <= nowT + WindowUnits
                  /\ Abs(c - v.scheduledTime) < ConflictWindow

\* C9: in each of the three places, a candidate time conflicts with the
\* existing visits if and only if one of them is scheduled less than
\* 3600 seconds from it.
C9_ConflictIffWithinHour ==
    schedCall # NoCall =>
        LET existing == GetVisitAvailability(schedCall.before, schedCall.now,
                                             schedCall.now + WindowUnits)
        IN  \A c \in (schedCall.now)..(schedCall.now + WindowUnits) :
                LET real == RealConflict(c, schedCall.before, schedCall.now)
                IN  /\ ProposedConflict(c, existing) <=> real
                    /\ AlternativeConflict(c, existing) <=> real
                    /\ FallbackConflict(c, existing) <=> real

\* C10: a proposed date and time that is not in the past and has no
\* non-cancelled visit within one hour of it is booked as proposed:
\* visitScheduled is true and the visit created is at the proposed time.
C10_FreeProposedTimeBooked ==
    ( /\ schedCall # NoCall
      /\ schedCall.llm.outcome = "time"
      /\ schedCall.llm.time >= schedCall.now
      /\ ~\E v \in schedCall.before :
            /\ v.status # "cancelled"
            /\ Abs(schedCall.llm.time - v.scheduledTime) < ConflictWindow ) =>
        /\ schedCall.result.visit_scheduled
        /\ schedCall.result.kind = "confirmed"
        /\ schedCall.result.time = schedCall.llm.time

\* ---------------------------------------------------------------------
\* The scheduling engine: past times, alternatives, the proposal fallback
\* ---------------------------------------------------------------------
FallbackKinds == {"come_by", "how_about", "booked_up"}
ReachedFallback == schedCall # NoCall /\ schedCall.result.kind \in FallbackKinds
TimeProposed == schedCall # NoCall /\ schedCall.llm.outcome = "time"

\* C11: a dealer-proposed time earlier than now is never booked, it goes
\* to the proposal fallback; and the visit a call creates, whichever way,
\* is scheduled not earlier than the now of that call.
C11_PastTimeNeverBooked ==
    schedCall # NoCall =>
        /\ (TimeProposed /\ schedCall.llm.time < schedCall.now) =>
               /\ schedCall.result.kind \in FallbackKinds
               /\ schedCall.result.time # schedCall.llm.time
        /\ schedCall.result.time # NoTime =>
               /\ schedCall.result.time >= schedCall.now
               /\ \E v \in visits : /\ v.id = nextVisitId - 1
                                    /\ v.threadId = schedCall.thread
                                    /\ v.scheduledTime = schedCall.result.time
                                    /\ v.scheduledTime >= schedCall.now

\* C11 witness: the dealer proposed a past time and the fallback booked a visit
C11_Witness ==
    /\ TimeProposed /\ schedCall.llm.time < schedCall.now
    /\ schedCall.result.visit_scheduled
    /\ schedCall.result.time >= schedCall.now

\* the candidates of the alternative search that are in range and within
\* one hour of no visit
FreeAlternatives(proposed, db, nowT) ==
    { i \in 1..Len(OffsetList) :
        LET c == proposed + OffsetList[i]
        IN  c >= nowT /\ c <= nowT + WindowUnits /\ ~RealConflict(c, db, nowT) }

\* C12: when the proposed time is within one hour of an existing visit,
\* the engine books the candidate among -30, +30, -60, +60, -90, +90
\* minutes with the smallest absolute offset (the earlier of two at the
\* same distance) that is in range and in conflict with no visit; with no
\* such candidate it goes to the proposal fallback.
C12_NearestAlternativeBooked ==
    ( /\ TimeProposed
      /\ schedCall.llm.time >= schedCall.now
      /\ RealConflict(schedCall.llm.time, schedCall.before, schedCall.now) ) =>
        LET ok == FreeAlternatives(schedCall.llm.time, schedCall.before, schedCall.now)
            best == CHOOSE i \in ok : \A j \in ok :
                        \/ Abs(OffsetList[i]) < Abs(OffsetList[j])
                        \/ (Abs(OffsetList[i]) = Abs(OffsetList[j]) /\ i <= j)
        IN  IF ok = {}
            THEN schedCall.result.kind \in FallbackKinds
            ELSE /\ schedCall.result.kind = "alternative"
                 /\ schedCall.result.time = schedCall.llm.time + OffsetList[best]

\* the whole hours from 9 to 17 on the days of the window that lie in the
\* window and within one hour of no visit
FreeWindowSlots(db, nowT) ==
    { c \in { Slot(d, h) : d \in Date(nowT)..Date(nowT + WindowUnits), h \in 9..17 } :
        c >= nowT /\ c <= nowT + WindowUnits /\ ~RealConflict(c, db, nowT) }

\* C13: the proposal fallback books a time within [now, now + 2 days]
\* whenever a whole hour from 9 to 17 on the days of the window is free,
\* and answers "booked up" only when every such hour is occupied.
C13_FallbackBooksWhenFree ==
    ReachedFallback =>
        LET free == FreeWindowSlots(schedCall.before, schedCall.now)
        IN  /\ free # {} =>
                /\ schedCall.result.visit_scheduled
                /\ schedCall.result.time >= schedCall.now
                /\ schedCall.result.time <= schedCall.now + WindowUnits
            /\ schedCall.result.kind = "booked_up" => free = {}

\* the first slot of a scan that is in range and within one hour of no visit
FirstRealFree(slots, db, nowT) ==
    LET ok == { k \in 1..Len(slots) :
                  /\ slots[k] >= nowT /\ slots[k] <= nowT + WindowUnits
                  /\ ~RealConflict(slots[k], db, nowT) }
    IN  IF ok = {} THEN NoTime ELSE slots[CHOOSE k \in ok : \A j \in ok : k <= j]

\* C14: the fallback scans the days from tomorrow (today before 10:00) to
\* the end date of the window, hours 10, 14, 16 of every scanned day first
\* and then every hour from 9 to 17, and books the first candidate in that
\* order that is in range and in conflict with no visit; an hour other
\* than 10, 14, 16 only when none of those is free on any scanned day.
C14_FallbackScanOrder ==
    ReachedFallback =>
        LET end == schedCall.now + WindowUnits
            pref == FirstRealFree(ScanSlots(schedCall.now, end, PreferredHours),
                                  schedCall.before, schedCall.now)
            any == FirstRealFree(ScanSlots(schedCall.now, end, AnyHours),
                                 schedCall.before, schedCall.now)
        IN  IF pref # NoTime
            THEN schedCall.result.kind = "come_by" /\ schedCall.result.time = pref
            ELSE any # NoTime =>
                    schedCall.result.kind = "how_about" /\ schedCall.result.time = any

\* C15: when no scanned slot of the window is free, the fallback creates
\* no visit and returns the "booked up" message with visit_scheduled false.
C15_BookedUpCreatesNothing ==
    ( /\ ReachedFallback
      /\ FirstRealFree(ScanSlots(schedCall.now, schedCall.now + WindowUnits, AnyHours),
                       schedCall.before, schedCall.now) = NoTime ) =>
        /\ schedCall.result.kind = "booked_up"
        /\ ~schedCall.result.visit_scheduled
        /\ schedCall.result.time = NoTime

\* ---------------------------------------------------------------------
\* Booking without rollback, the classifier, send_sms
\* ---------------------------------------------------------------------
OutboundCount(t) ==
    Cardinality({ i \in 1..Len(msgs[t]) : msgs[t][i].direction = "outbound" })
SentCount(t) == Cardinality({ i \in 1..Len(sent) : sent[i].thread = t })

\* C16: every visit the engine creates has status "scheduled" and exists
\* from the step that proposes it; when the confirmation SMS fails after
\* the booking, the visit remains, the thread is marked complete and no
\* outbound message is recorded.
C16_BookingNotRolledBack ==
    /\ \A v \in visits : v.threadId \in Threads => v.status = "scheduled"
    /\ (ev.op = "webhook" /\ ev.engineCalled /\ ev.visitCreated # NoTime) =>
           /\ ev.text = EngineText(schedCall.result)
           /\ ev.text.time = ev.visitCreated
           /\ \E v \in visits : /\ v.id = nextVisitId - 1
                                /\ v.threadId = ev.thread
                                /\ v.scheduledTime = ev.visitCreated
    /\ (HandlerStep /\ ev.path = "sched" /\ ev.smsTried /\ ev.finished /\ ~ev.smsSent) =>
           /\ \E v \in visits : /\ v.threadId = ev.thread
                                /\ v.scheduledTime = ev.text.time
                                /\ v.status = "scheduled"
           /\ thr[ev.thread].complete
           /\ ~ev.recorded
           /\ OutboundCount(ev.thread) = SentCount(ev.thread)

\* C16 witness: a visit was booked and the confirmation SMS failed
C16_Witness ==
    /\ HandlerStep /\ ev.path = "sched" /\ ev.smsTried /\ ev.finished /\ ~ev.smsSent
    /\ thr[ev.thread].complete
    /\ \E v \in visits : v.threadId = ev.thread

C18_ClassifierFailsOpen ==
    (ev.op = "webhook" /\ ev.classified /\ ev.answer = "error") =>
        /\ ev.newInfo
        /\ ev.agentCalled
        /\ ~ev.flagAtAgent
        /\ thr[ev.thread].waiting => (ev.path = "wait" /\ ev.smsSent)

\* C18 witness: the classifier's model call failed on a waiting thread
C18_Witness ==
    /\ ev.op = "webhook" /\ ev.wasWaiting /\ ev.classified
    /\ ev.llmAsked /\ ev.answer = "error" /\ ev.agentCalled

\* C19: the classifier, fast path included, is consulted only for a
\* message on a thread whose waiting flag is set; on a thread that is not
\* waiting an acknowledgment goes to the agent like any other message.
C19_ClassifierOnlyWhileWaiting ==
    ev.op = "webhook" =>
        /\ ev.classified => ev.wasWaiting
        /\ ~ev.wasWaiting =>
               /\ ~ev.classified /\ ~ev.llmAsked /\ ev.answer = NotAsked
               /\ ~ev.wasComplete => ev.agentCalled

\* C19 witness: an acknowledgment on a thread that is not waiting reached the agent
C19_Witness ==
    /\ ev.op = "webhook" /\ ~ev.wasWaiting /\ ~ev.wasComplete
    /\ ev.body = {"will get back"}
    /\ ev.agentCalled /\ ev.reply # AgentFailed

\* C20: send_sms makes at most 3 attempts; it goes on to another attempt
\* only after a connection or timeout failure with attempts left; any
\* other failure, and a network failure on the last attempt, is raised at
\* once; a successful attempt ends the call.
C20_SendSmsBounded ==
    /\ \A h \in handlers : h.attempt \in 1..SmsRetries
    /\ ev.op = "send" =>
           /\ ev.attempt \in 1..SmsRetries
           /\ ev.smsSent <=> ev.smsOutcome = "ok"
           /\ ~ev.finished <=> (ev.smsOutcome = "net" /\ ev.attempt < SmsRetries)
           /\ ~ev.finished => \E h \in handlers : h.attempt = ev.attempt + 1
           /\ ev.finished => handlers = {}
           /\ ev.smsSent => LastSent.text = ev.text /\ LastSent.thread = ev.thread

\* C20 witness: the third attempt failed on the network and the failure was raised
C20_Witness ==
    /\ ev.op = "send" /\ ev.attempt = SmsRetries /\ ev.smsOutcome = "net"
    /\ ev.finished /\ ~ev.smsSent /\ handlers = {}

\* ---------------------------------------------------------------------
\* C21: whatever webhooks have arrived, overlapping ones for a number not
\* seen before included, every dealer phone number has at most one thread
\* document.
\* ---------------------------------------------------------------------
C21_OneThreadPerNumber ==
    \A t \in Threads : thr[t].docs <= 1

\* the second message of a number arrived while the handler of its first
\* message, the one that created the thread, was still suspended
C21_Witness ==
    \E t \in Threads :
        /\ ev.op = "webhook" /\ ev.thread = t /\ ev.msg = 2
        /\ \E h \in handlers : h.thread = t /\ h.forMsg = 1
        /\ thr[t].docs = 1
        /\ thr[t].unread = 2

\* ---------------------------------------------------------------------
\* C22: in every reachable state a thread has at most one car listing:
\* the finalization updates the listing it finds and creates one only when
\* it finds none.
\* ---------------------------------------------------------------------
C22_OneListingPerThread ==
    /\ \A t \in Threads : listings[t].docs <= 1
    /\ \A t \in Threads : listings[t].exists <=> listings[t].docs = 1
    /\ (HandlerStep /\ ev.listing = "created") => listings[ev.thread].docs = 1

\* a finalization that found the listing of its thread and updated it
C22_Witness ==
    /\ HandlerStep
    /\ ev.listing = "updated"
    /\ listings[ev.thread].docs = 1

\* ---------------------------------------------------------------------
\* C23: the message log only grows by appending.  Every step keeps the
\* messages already stored, in order and unchanged; a webhook that passes
\* the gate appends exactly one inbound message whatever the state of the
\* thread, and no other step adds an inbound message.
\* ---------------------------------------------------------------------
KeepsLog(t) ==
    /\ Len(msgs'[t]) >= Len(msgs[t])
    /\ SubSeq(msgs'[t], 1, Len(msgs[t])) = msgs[t]

C23_LogOnlyAppends ==
    [][\A t \in Threads :
         /\ KeepsLog(t)
         /\ IF ev'.op = "webhook" /\ ev'.thread = t
            THEN /\ InboundCount(t)' = InboundCount(t) + 1
                 /\ msgs'[t][Len(msgs[t]) + 1].direction = "inbound"
            ELSE InboundCount(t)' = InboundCount(t)]_vars

\* a message of a thread whose conversation is complete has been stored
\* behind the messages the thread already had
C23_Witness ==
    /\ ev.op = "webhook"
    /\ ev.wasComplete
    /\ Len(msgs[ev.thread]) >= 3
    /\ LastMsg(ev.thread).direction = "inbound"
    /\ msgs[ev.thread][1].direction = "inbound"
    /\ msgs[ev.thread][2].direction = "outbound"

\* ---------------------------------------------------------------------
\* C24: a payload whose fromNumber or message is missing or empty is
\* answered with a client error (a 4xx status), and the request changes
\* no thread, message, visit, listing, pending entry or task.
\* ---------------------------------------------------------------------
StoreUnchanged ==
    UNCHANGED <<thr, msgs, listings, visits, nextVisitId, pending, tasks, nextTask,
                handlers, sent>>

C24_MalformedIsClientError ==
    [][ev'.op \in {"invalid", "rejected"} =>
         /\ ev'.status \in 400..499
         /\ StoreUnchanged]_vars

\* ---------------------------------------------------------------------
\* C25: a message that carries the provider's opt-in text is a no-op: the
\* handler answers success, no thread is created or updated, no message
\* is stored, the unread count stays, no pending response is cancelled or
\* registered and the agent is not called.
\* ---------------------------------------------------------------------
C25_OptInIsNoOp ==
    [][(ev'.op \in {"filtered", "webhook"} /\ OptInPiece \in ev'.body) =>
         /\ ev'.op = "filtered"
         /\ ev'.status = Success
         /\ ~ev'.agentCalled /\ ~ev'.cancelled /\ ~ev'.registered
         /\ StoreUnchanged]_vars

\* the opt-in text arrived from a dealer whose reply is pending: the
\* thread, its one message, its unread count and the pending entry stay
C25_Witness ==
    /\ ev.op = "filtered"
    /\ ev.thread \in Threads
    /\ pending[ev.thread] # NoTask
    /\ thr[ev.thread].unread = 1
    /\ Len(msgs[ev.thread]) = 1

\* ---------------------------------------------------------------------
\* C26: when the call of the negotiation agent fails (an error or an
\* empty completion) the processing of the message ends there: the engine
\* is not called, no SMS is tried, no outbound message is recorded, no
\* pending send is registered, no visit is created, and the waiting and
\* complete flags of the thread are the ones it had just before the call.
\* ---------------------------------------------------------------------
AgentFailure == ev.op = "webhook" /\ ev.agentCalled /\ ev.reply = AgentFailed

C26_AgentFailureAborts ==
    AgentFailure =>
        /\ ev.path = "agent_failed"
        /\ ev.finished
        /\ ~ev.engineCalled /\ ev.visitCreated = NoTime
        /\ ~ev.smsTried /\ ~ev.smsSent /\ ~ev.recorded
        /\ ev.text = NoText
        /\ ~ev.registered /\ pending[ev.thread] = NoTask
        /\ LastMsg(ev.thread).direction = "inbound"
        /\ thr[ev.thread].waiting = ev.flagAtAgent
        /\ thr[ev.thread].complete = ev.wasComplete

\* the agent failed on a message with new information of a waiting
\* thread whose flag had been cleared before the call
C26_Witness ==
    /\ AgentFailure
    /\ ev.wasWaiting
    /\ ~thr[ev.thread].waiting
    /\ ~thr[ev.thread].complete

\* ---------------------------------------------------------------------
\* C27: a deferred send that fails takes the thread's entry out of the
\* pending map and is not tried again; once a deferred task has ended
\* (sent, failed or cancelled) no entry of the map refers to it: every
\* entry names a task that is still alive, an ended task never comes
\* back, and tasks only come from a webhook that registers one.
\* ---------------------------------------------------------------------
TaskIds(S) == { k.id : k \in S }
DeferredEnded == ev.op = "deferred" /\ ev.finished

PendingRefersToLiveTask ==
    /\ \A t \in Threads :
          pending[t] # NoTask => \E k \in tasks : k.id = pending[t] /\ k.thread = t
    /\ DeferredEnded =>
          /\ pending[ev.thread] = NoTask
          /\ \A k \in tasks : ~(k.thread = ev.thread /\ k.forMsg = ev.msg)

C27_FailedDeferredSendForgotten ==
    /\ []PendingRefersToLiveTask
    /\ [][/\ TaskIds(tasks') \subseteq TaskIds(tasks) \cup {nextTask}
          /\ (TaskIds(tasks') \ TaskIds(tasks) # {}) =>
                (ev'.op = "webhook" /\ ev'.registered /\ nextTask' = nextTask + 1)]_vars

\* a deferred send has failed and the map holds nothing for the thread
C27_Witness ==
    /\ DeferredEnded
    /\ ev.smsTried /\ ~ev.smsSent
    /\ pending[ev.thread] = NoTask
    /\ \A k \in tasks : k.thread # ev.thread

\* ---------------------------------------------------------------------
\* C29: the availability context of a call of the engine.
\* As stated: exactly the non-cancelled visits of the thread being
\* scheduled whose scheduled time lies within [now, now + 2 days].
\* ---------------------------------------------------------------------
InWindow(v, nowT) == v.scheduledTime >= nowT /\ v.scheduledTime <= nowT + WindowUnits

OfThread(S, u) == { x \in S : x.thread = u }
SentTo(log, u) == SelectSeq(log, LAMBDA e : e.thread = u)

LeavesOtherThreadsAlone ==
    \A u \in Threads \ {ev'.thread} :
        /\ thr'[u] = thr[u]
        /\ msgs'[u] = msgs[u]
        /\ listings'[u] = listings[u]
        /\ pending'[u] = pending[u]
        /\ OfThread(tasks', u) = OfThread(tasks, u)
        /\ OfThread(handlers', u) = OfThread(handlers, u)
        /\ SentTo(sent', u) = SentTo(sent, u)
        /\ { v \in visits' : v.threadId = u } = { v \in visits : v.threadId = u }

OwnVisits(call) == { v \in call.before : v.threadId = call.thread }

InRange(v, start, end) ==
    /\ (start = NoTime \/ v.scheduledTime >= start)
    /\ (end = NoTime \/ v.scheduledTime <= end)

\* the visit that the latest call of the engine created in its fallback
LatestFallbackVisit(v) ==
    /\ schedCall # NoCall
    /\ schedCall.result.kind \in {"come_by", "how_about"}
    /\ v.id = nextVisitId - 1
    /\ v.threadId = schedCall.thread
    /\ v.scheduledTime = schedCall.result.time

Elements(v) == { i \in DOMAIN ev.result : ev.result[i].id = v.id }

C30_FallbackVisitQueried ==
    ev.op = "get_visits" =>
        /\ \A i \in DOMAIN ev.result : ev.result[i].status # "cancelled"
        /\ \A v \in visits :
              (LatestFallbackVisit(v) /\ v.status = "scheduled" /\ InRange(v, ev.from, ev.to)) =>
                  /\ Cardinality(Elements(v)) = 1
                  /\ \A i \in Elements(v) :
                        /\ thr[v.threadId].docs > 0 => ev.result[i].thread
                        /\ listings[v.threadId].docs > 0 => ev.result[i].carListing

\* ---------------------------------------------------------------------
\* C31: for every set of known facts and every transcript the prompt of
\* the negotiation agent lists every fact present in the set under the
\* heading that tells the agent not to ask for it again; the same holds
\* for the known facts the webhook pipeline passes.  A fact is present
\* when the field holds a value: not None and not the empty string.
\* ---------------------------------------------------------------------
FactPresent(K, f) == K[f] # None /\ K[f] # ""

C31_KnownFactsListed ==
    ev.op = "prompt" =>
        /\ \A f \in Fields : FactPresent(ev.known, f) => f \in ev.listed
        /\ (\E f \in Fields : FactPresent(ev.known, f)) => ev.section

\* a known mileage of 0 and a tire answer of False are listed
C31_Witness ==
    /\ ev.op = "prompt"
    /\ ev.known["miles"] = "0"
    /\ ev.known["tireLifeLeft"] = "False"
    /\ {"miles", "tireLifeLeft"} \subseteq ev.listed
    /\ ev.section

\* ---------------------------------------------------------------------
\* C32: when the scheduling engine answers without a booked visit (or
\* fails), its message takes the place of the agent's reply and goes to
\* the dealer by the delayed-response flow: a pending deferred send of
\* that message is registered, and the thread stays not complete.
\* ---------------------------------------------------------------------
EngineUnbooked ==
    /\ ev.op = "webhook"
    /\ ev.engineCalled
    /\ schedCall # NoCall
    /\ ~schedCall.result.visit_scheduled

C32_UnbookedMessageDeferred ==
    EngineUnbooked =>
        /\ ~thr[ev.thread].complete
        /\ ev.registered
        /\ \E k \in tasks : /\ k.id = pending[ev.thread]
                            /\ k.thread = ev.thread
                            /\ k.text = EngineText(schedCall.result)

\* ---------------------------------------------------------------------
\* C33: a thread has a car listing only if its conversationComplete flag
\* is set; a listing is created or updated only by the finalization that
\* follows a booked visit, after the thread was marked complete.
\* ---------------------------------------------------------------------
C33_ListingOnlyWhenComplete ==
    /\ \A t \in Threads : listings[t].docs > 0 => thr[t].complete
    /\ (HandlerStep /\ ev.listing # "none") =>
          /\ ev.path \in {"sched", "about"}
          /\ thr[ev.thread].complete
          /\ \E v \in visits : v.threadId = ev.thread /\ v.status = "scheduled"

\* the finalization created the listing of a thread whose confirmation
\* SMS had failed
C33_Witness ==
    /\ HandlerStep
    /\ ev.listing = "created"
    /\ ev.smsTried /\ ~ev.smsSent
    /\ listings[ev.thread].docs = 1
    /\ thr[ev.thread].complete

\* ---------------------------------------------------------------------
\* C34: no double booking.  From a collection without two conflicting
\* visits, whatever calls of the engine follow (any thread, any proposed
\* time, times beyond the two-day window included), no two visits that
\* are not cancelled lie less than one hour apart.
\* ---------------------------------------------------------------------
C34_NoDoubleBooking ==
    \A v, w \in visits :
        (v # w /\ v.status # "cancelled" /\ w.status # "cancelled") =>
            Abs(v.scheduledTime - w.scheduledTime) >= ConflictWindow

\* ---------------------------------------------------------------------
\* C35: the webhook pipeline creates at most one visit per thread,
\* however the handlers of the thread interleave: the first booking marks
\* the thread complete and later messages stop before the engine.
\* ---------------------------------------------------------------------
VisitsOf(t) == { v \in visits : v.threadId = t }

C35_OneVisitPerThread ==
    \A t \in Threads : Cardinality(VisitsOf(t)) <= 1

\* ---------------------------------------------------------------------
\* C36: a thread that has an entry in the pending-response map is
\* neither waiting nor complete.
\* ---------------------------------------------------------------------
C36_PendingNeitherWaitingNorComplete ==
    \A t \in Threads :
        pending[t] # NoTask => (~thr[t].waiting /\ ~thr[t].complete)

\* ---------------------------------------------------------------------
\* C37: conversationComplete is set only by a handler step on a booking
\* path, after the engine booked a visit for the thread; a complete thread
\* has at least one visit with status "scheduled", and a thread once
\* complete stays complete.
\* ---------------------------------------------------------------------
HasScheduledVisit(t) ==
    \E v \in visits : v.threadId = t /\ v.status = "scheduled"

CompleteHasVisit ==
    \A t \in Threads : thr[t].complete => HasScheduledVisit(t)

CompleteSetByBooking ==
    \A t \in Threads :
        /\ thr[t].complete => thr'[t].complete
        /\ (~thr[t].complete /\ thr'[t].complete) =>
              /\ ev'.op \in {"webhook", "resume"}
              /\ ev'.thread = t
              /\ ev'.path \in {"sched", "about"}
              /\ \E v \in visits' : v.threadId = t /\ v.status = "scheduled"

C37_CompleteOnlyAfterBooking ==
    []CompleteHasVisit /\ [][CompleteSetByBooking]_vars

\* C37 witness: a later message reached a thread that a booking had
\* completed; the thread is still complete and its visit still scheduled
C37_Witness ==
    /\ ev.op = "webhook"
    /\ ev.wasComplete
    /\ ev.path = "complete"
    /\ thr[ev.thread].complete
    /\ HasScheduledVisit(ev.thread)

\* ---------------------------------------------------------------------
\* C38: no SMS body sent to a dealer contains a control marker, whatever
\* markers the agent reply contained.
\* ---------------------------------------------------------------------
ControlMarkers == {WaitingMarker, ScheduleMarker}

C38_NoMarkerInSentText ==
    \A i \in 1..Len(sent) :
        \A m \in ControlMarkers : ~HasMarker(sent[i].text.tokens, m)

\* ---------------------------------------------------------------------
\* C39: an outbound message is recorded only after its SMS send
\* succeeded, and every outbound message of the log corresponds to one
\* successful send.  The waiting flag is set only after the
\* acknowledgment was sent: when that send fails the thread is not marked
\* waiting and nothing is recorded.  The scheduling paths mark the thread
\* complete whether or not the confirmation was sent.
\* ---------------------------------------------------------------------
LogMatchesSends ==
    \A t \in Threads : OutboundCount(t) = SentCount(t)

SendStepEnded ==
    /\ ev'.op \in {"webhook", "resume", "deferred"}
    /\ ev'.smsTried
    /\ ev'.finished

\* an outbound message enters the log in the step of its successful send
RecordedWithSend ==
    \A t \in Threads :
        Len(msgs'[t]) > Len(msgs[t]) /\ msgs'[t][Len(msgs'[t])].direction = "outbound" =>
            /\ SendStepEnded /\ ev'.smsSent /\ ev'.thread = t
            /\ Len(sent') = Len(sent) + 1
            /\ sent'[Len(sent')].thread = t
            /\ sent'[Len(sent')].text = msgs'[t][Len(msgs'[t])].body

NothingRecordedOnFailure ==
    (SendStepEnded /\ ~ev'.smsSent) =>
        /\ sent' = sent
        /\ \A t \in Threads :
              { i \in 1..Len(msgs'[t]) : msgs'[t][i].direction = "outbound" } =
              { i \in 1..Len(msgs[t]) : msgs[t][i].direction = "outbound" }

WaitingSetAfterSend ==
    \A t \in Threads :
        (~thr[t].waiting /\ thr'[t].waiting) =>
            SendStepEnded /\ ev'.smsSent /\ ev'.thread = t /\ ev'.path = "wait"

CompleteSetAfterSend ==
    \A t \in Threads :
        (~thr[t].complete /\ thr'[t].complete) =>
            SendStepEnded /\ ev'.smsSent /\ ev'.thread = t

CompleteSetWhateverSend ==
    (SendStepEnded /\ ev'.path \in {"sched", "about"}) => thr'[ev'.thread].complete

C39_RecordOnlyAfterSend ==
    /\ []LogMatchesSends
    /\ [][/\ RecordedWithSend
          /\ NothingRecordedOnFailure
          /\ WaitingSetAfterSend
          /\ CompleteSetWhateverSend]_vars

\* C39 as stated: every state change that follows a send, the completion
\* of the thread included, is made only after the send succeeded
C39_StateChangeOnlyAfterSend ==
    /\ []LogMatchesSends
    /\ [][/\ RecordedWithSend
          /\ NothingRecordedOnFailure
          /\ WaitingSetAfterSend
          /\ CompleteSetAfterSend]_vars

\* C39 witness: the acknowledgment of the wait path failed on its last
\* attempt, after a retry sleep; nothing was sent or recorded and the
\* thread is not waiting
C39_Witness ==
    /\ ev.op = "resume"
    /\ ev.path = "wait"
    /\ ev.finished
    /\ ~ev.smsSent
    /\ ~thr[ev.thread].waiting
    /\ OutboundCount(ev.thread) = 0
    /\ SentCount(ev.thread) = 0

\* ---------------------------------------------------------------------
\* C40: each inbound message produces at most one reply.  In every
\* reachable state the SMS sent on a thread, immediate or deferred, are at
\* most as many as the inbound messages stored for it, and no two of them
\* answer the same inbound message.
\* ---------------------------------------------------------------------
SentOn(t) == { i \in 1..Len(sent) : sent[i].thread = t }

C40_AtMostOneReplyPerInbound ==
    \A t \in Threads :
        /\ SentCount(t) <= InboundCount(t)
        /\ \A i, j \in SentOn(t) : sent[i].forMsg = sent[j].forMsg => i = j
        /\ \A i \in SentOn(t) : sent[i].forMsg \in 1..InboundCount(t)

\* C40 witness: two inbound messages of one thread, each answered once,
\* one by the handler itself and one by a deferred task
C40_Witness ==
    \E t \in Threads :
        /\ InboundCount(t) = 2
        /\ SentCount(t) = 2
        /\ \E i, j \in SentOn(t) : sent[i].via = "immediate" /\ sent[j].via = "deferred"

====
